---- MODULE Spec2Model ----
(***************************************************************************)
(* Model of the in-memory publish/subscribe bus of package subpub          *)
(* (src/subpub/subpub.go).  Every goroutine of the package is a process of *)
(* the model: callers of Subscribe, Publish, Unsubscribe and Close, one    *)
(* worker per subscription, the detached overflow sender started by        *)
(* enqueue and the waiter goroutine started by Close.  Sections guarded by *)
(* sp.mu contain no blocking operation and are single atomic steps.        *)
(***************************************************************************)
EXTENDS Naturals, Integers, Sequences, FiniteSets, TLC

\* ------------------------------ bounds ------------------------------
\* Capacity of a subscription's buffered channel (64 in the source, scaled).
QueueCap == 1
\* Total number of calls of Subscribe, Publish, Unsubscribe and Close over a run.
MaxCalls == 5

Subs     == {1, 2}        \* subscriptions; subscription s is created by caller s
Pubs     == {1, 2}        \* goroutines calling Publish
Users    == {1, 2}        \* goroutines calling Subscription.Unsubscribe
Closers  == {1, 2}        \* goroutines calling Close
Subjects == {"a", "b"}
Msgs     == 1..(MaxCalls + 1) \* message ids, in the order the Publish calls start
CtxKinds == {"background", "cancelled"}  \* never-firing / already cancelled


VARIABLES
    \* subPub
    subs,        \* sp.subs: subject -> [present, list]
    closed,      \* sp.closed
    wg,          \* sp.wg counter
    \* subscription
    sres,        \* result of the Subscribe call that creates s
    subject,     \* s.subject
    ch,          \* s.ch buffer
    chClosed,    \* s.ch has been closed
    sendMu,      \* s.sendMu is locked
    ovf,         \* messages held by detached goroutines of enqueue (<<>> when none)
    once,        \* s.once: "idle", "running", "done"
    wpc,         \* worker goroutine: "none", "recv", "handling", "exited"
    delivered,   \* messages passed to s.cb, in order of the calls
    inHandler,   \* calls of s.cb in progress
    \* Publish callers
    ppc, pmsg, pcopy, presult, nextMsg,
    \* Unsubscribe callers
    upc, utarget,
    \* Close callers
    cpc, ctoClose, cctx, cresult, waiter,
    \* process
    panicked,    \* an unrecovered panic has terminated the program
    budget,      \* number of calls the callers may still make
    \* history
    overlap,        \* Publish calls in progress when the call of each message started
    dropped,        \* <<m, s>>: the detached send of m to s was aborted
    viaOvf,         \* <<m, s>>: m was put into s.ch by the detached goroutine
    unsubAt,        \* nextMsg when an Unsubscribe call on s first returned (0: none has)
    closeReturned,  \* some Close call has returned
    racing,         \* publishers inside a Publish call when the shutdown Close was called
    late,           \* kinds of calls ("Subscribe", "Publish") made after a Close call returned
    removals,       \* times step 1 of the function given to s.once.Do has run
    closes,         \* times close(s.ch) has run
    atClose,        \* the buffer of s.ch when close(s.ch) ran
    \* Server.Subscribe stream handlers
    hpc,            \* handler position: "idle", "subscribe", "waiting", "deferred", "returned"
    hctx            \* stream.Context() is done

busVars  == <<subs, closed, wg>>
subVars  == <<sres, subject, ch, chClosed, sendMu, ovf, once, wpc, delivered, inHandler>>
pubVars  == <<ppc, pmsg, pcopy, presult, nextMsg>>
userVars == <<upc, utarget>>
clVars   == <<cpc, ctoClose, cctx, cresult, waiter>>
histVars == <<overlap, dropped, viaOvf, unsubAt, closeReturned, racing, late>>
onceVars == <<removals, closes, atClose>>
srvVars  == <<hpc, hctx>>
vars == <<busVars, subVars, pubVars, userVars, clVars, panicked, budget, histVars, onceVars,
          srvVars>>

\* ------------------------------ helpers ------------------------------
Absent == [present |-> FALSE, list |-> <<>>]

SeqToSet(q) == {q[i] : i \in 1..Len(q)}

\* NewSubPub: an empty map, open, no workers.
NewSubPub == [k \in Subjects |-> Absent]

\* sp.subs[subject] read (a missing key reads as the empty slice).
Lookup(m, subj) == IF m[subj].present THEN m[subj].list ELSE <<>>

\* sp.subs[subject] = append(sp.subs[subject], sub)
MapAppend(m, subj, s) ==
    [m EXCEPT ![subj] = [present |-> TRUE, list |-> Append(Lookup(m, subj), s)]]

\* Mutation of SwapRemove: the slice is cut without the swap.
CutLast(list, s) ==
    IF \E i \in 1..Len(list) : list[i] = s
    THEN SubSeq(list, 1, Len(list) - 1)
    ELSE list

\* list[i] = list[len-1]; list = list[:len-1] for the first i with list[i] == s
SwapRemove(list, s) ==
    IF \E i \in 1..Len(list) : list[i] = s
    THEN LET i == CHOOSE j \in 1..Len(list) :
                    list[j] = s /\ \A k \in 1..(j-1) : list[k] # s
             swapped == [list EXCEPT ![i] = list[Len(list)]]
         IN  SubSeq(swapped, 1, Len(list) - 1)
    ELSE list

\* Mutation of RegistryRemove: unsubscribe leaves the map as it is.
RegistryKeep(m, s) == m

\* Step 1 of unsubscribe: remove s from the map, delete the key when empty.
RegistryRemove(m, s) ==
    LET subj == subject[s] IN
    IF m[subj].present
    THEN LET list == SwapRemove(m[subj].list, s) IN
         IF Len(list) = 0
         THEN [m EXCEPT ![subj] = Absent]
         ELSE [m EXCEPT ![subj] = [present |-> TRUE, list |-> list]]
    ELSE m

\* All orders in which range over the map may visit its keys.
RECURSIVE Orderings(_)
Orderings(S) ==
    IF S = {} THEN {<<>>}
    ELSE UNION {{<<x>> \o r : r \in Orderings(S \ {x})} : x \in S}

\* Mutation of Flatten: the loop over the map stops after the first subject.
FlattenFirstOnly(m, order) ==
    IF order = <<>> THEN <<>> ELSE m[Head(order)].list

\* toClose: the lists of the map appended in the order the range visits them.
RECURSIVE Flatten(_, _)
Flatten(m, order) ==
    IF order = <<>> THEN <<>>
    ELSE m[Head(order)].list \o Flatten(m, Tail(order))

Keys(m) == {k \in Subjects : m[k].present}

\* ------------------------------ Init ------------------------------
\* The state after NewSubPub, with b calls to come.
InitWith(b) ==
    /\ budget = b
    /\ subs = NewSubPub
    /\ closed = FALSE
    /\ wg = 0
    /\ sres = [s \in Subs |-> "none"]
    /\ subject = [s \in Subs |-> "a"]
    /\ ch = [s \in Subs |-> <<>>]
    /\ chClosed = [s \in Subs |-> FALSE]
    /\ sendMu = [s \in Subs |-> FALSE]
    /\ ovf = [s \in Subs |-> <<>>]
    /\ once = [s \in Subs |-> "idle"]
    /\ wpc = [s \in Subs |-> "none"]
    /\ delivered = [s \in Subs |-> <<>>]
    /\ inHandler = [s \in Subs |-> 0]
    /\ ppc = [p \in Pubs |-> "idle"]
    /\ pmsg = [p \in Pubs |-> 1]
    /\ pcopy = [p \in Pubs |-> <<>>]
    /\ presult = [p \in Pubs |-> "none"]
    /\ nextMsg = 1
    /\ upc = [u \in Users |-> "idle"]
    /\ utarget = [u \in Users |-> 1]
    /\ cpc = [c \in Closers |-> "idle"]
    /\ ctoClose = [c \in Closers |-> <<>>]
    /\ cctx = [c \in Closers |-> "background"]
    /\ cresult = [c \in Closers |-> "none"]
    /\ waiter = [c \in Closers |-> "none"]
    /\ panicked = FALSE
    /\ overlap = [m \in Msgs |-> {}]
    /\ dropped = {}
    /\ viaOvf = {}
    /\ unsubAt = [s \in Subs |-> 0]
    /\ closeReturned = FALSE
    /\ racing = {}
    /\ late = {}
    /\ removals = [s \in Subs |-> 0]
    /\ closes = [s \in Subs |-> 0]
    /\ atClose = [s \in Subs |-> <<>>]
    /\ hpc = [h \in Subs |-> "idle"]
    /\ hctx = [h \in Subs |-> FALSE]

\* Goroutine and subscription identities are interchangeable: caller i of a kind
\* makes its first call only after caller i-1 of that kind has made one.
SubTurn(s)   == \A r \in Subs : r < s => sres[r] # "none"
PubTurn(p)   == \A q \in Pubs : q < p => (ppc[q] # "idle" \/ presult[q] # "none")
CloseTurn(c) == \A d \in Closers : d < c => cpc[d] # "idle"
UserTurn(u)  == \A v \in Users : v < u => upc[v] # "idle"

\* An unrecovered panic ends the program: no goroutine takes another step.
Running == ~panicked

\* ------------------------------ Subscribe ------------------------------
\* Mutation of SubscribeSeesClosed: Subscribe does not look at sp.closed.
SubscribeIgnoresClosed == FALSE

\* if sp.closed, read by Subscribe under the write lock.
SubscribeSeesClosed == closed

\* Subscribe on a closed bus: ErrClosed, nothing else changes.
SubscribeClosed(s) ==
    /\ Running
    /\ budget > 0
    /\ budget' = budget - 1
    /\ sres[s] = "none"
    /\ SubTurn(s)
    /\ SubscribeSeesClosed
    /\ sres' = [sres EXCEPT ![s] = "ErrClosed"]
    /\ late' = IF closeReturned THEN late \cup {"Subscribe"} ELSE late
    /\ UNCHANGED <<busVars, subject, ch, chClosed, sendMu, ovf, once, wpc, delivered, inHandler,
                   pubVars, userVars, clVars, panicked,
                   overlap, dropped, viaOvf, unsubAt, closeReturned, racing>>
    /\ UNCHANGED onceVars
    /\ UNCHANGED srvVars

\* Subscribe on an open bus: register the subscription and start its worker.
Subscribe(s, subj) ==
    /\ Running
    /\ budget > 0
    /\ budget' = budget - 1
    /\ sres[s] = "none"
    /\ SubTurn(s)
    /\ ~SubscribeSeesClosed
    /\ sres' = [sres EXCEPT ![s] = "ok"]
    /\ subject' = [subject EXCEPT ![s] = subj]
    /\ subs' = MapAppend(subs, subj, s)
    /\ wg' = wg + 1
    /\ wpc' = [wpc EXCEPT ![s] = "recv"]
    /\ late' = IF closeReturned THEN late \cup {"Subscribe"} ELSE late
    /\ UNCHANGED <<closed, ch, chClosed, sendMu, ovf, once, delivered, inHandler,
                   pubVars, userVars, clVars, panicked,
                   overlap, dropped, viaOvf, unsubAt, closeReturned, racing>>
    /\ UNCHANGED onceVars
    /\ UNCHANGED srvVars

\* ------------------------------ worker ------------------------------
\* Mutation of AfterRecv: the handler is started with go s.cb(msg) and the loop
\* receives on.
AfterRecvDetached == "recv"

\* The worker after a receive: inside s.cb(msg) until it returns.
AfterRecv == "handling"

\* for msg := range s.ch { s.cb(msg) }: receive the next message, call the handler.
WorkerRecv(s) ==
    /\ Running
    /\ wpc[s] = "recv"
    /\ Len(ch[s]) > 0
    /\ ch' = [ch EXCEPT ![s] = Tail(@)]
    /\ delivered' = [delivered EXCEPT ![s] = Append(@, Head(ch[s]))]
    /\ wpc' = [wpc EXCEPT ![s] = AfterRecv]
    /\ inHandler' = [inHandler EXCEPT ![s] = @ + 1]
    /\ UNCHANGED <<budget, busVars, sres, subject, chClosed, sendMu, ovf, once,
                   pubVars, userVars, clVars, panicked, histVars>>
    /\ UNCHANGED onceVars
    /\ UNCHANGED srvVars

\* The handler returns (a handler may also never return).
HandlerReturn(s) ==
    /\ Running
    /\ wpc[s] = "handling"
    /\ wpc' = [wpc EXCEPT ![s] = "recv"]
    /\ inHandler' = [inHandler EXCEPT ![s] = @ - 1]
    /\ UNCHANGED <<budget, busVars, sres, subject, ch, chClosed, sendMu, ovf, once, delivered,
                   pubVars, userVars, clVars, panicked, histVars>>
    /\ UNCHANGED onceVars
    /\ UNCHANGED srvVars

\* The channel is closed and drained: the loop ends, defer wg.Done().
WorkerExit(s) ==
    /\ Running
    /\ wpc[s] = "recv"
    /\ Len(ch[s]) = 0
    /\ chClosed[s]
    /\ wpc' = [wpc EXCEPT ![s] = "exited"]
    /\ wg' = wg - 1
    /\ UNCHANGED <<budget, subs, closed, sres, subject, ch, chClosed, sendMu, ovf, once, delivered,
                   inHandler,
                   pubVars, userVars, clVars, panicked, histVars>>
    /\ UNCHANGED onceVars
    /\ UNCHANGED srvVars

\* ------------------------------ Publish ------------------------------
\* Mutation of PublishSeesClosed: Publish does not look at sp.closed.
PublishIgnoresClosed == FALSE

\* if sp.closed, read by Publish under the read lock.
PublishSeesClosed == closed

\* Publish on a closed bus: ErrClosed under the read lock, nothing else changes.
PublishClosed(p) ==
    /\ Running
    /\ budget > 0
    /\ budget' = budget - 1
    /\ ppc[p] = "idle"
    /\ PubTurn(p)
    /\ PublishSeesClosed
    /\ presult' = [presult EXCEPT ![p] = "ErrClosed"]
    /\ nextMsg' = nextMsg + 1
    /\ late' = IF closeReturned THEN late \cup {"Publish"} ELSE late
    /\ UNCHANGED <<busVars, subVars, ppc, pmsg, pcopy, userVars, clVars, panicked,
                   overlap, dropped, viaOvf, unsubAt, closeReturned, racing>>
    /\ UNCHANGED onceVars
    /\ UNCHANGED srvVars

\* The Publish call of p returns nil once its copy of the slice is exhausted.
Returns(copy) == Len(copy) = 0

\* Publish on an open bus: copy the subject's slice under the read lock.
\* With an empty copy the call returns nil at once.
PublishCall(p, subj) ==
    /\ Running
    /\ budget > 0
    /\ budget' = budget - 1
    /\ ppc[p] = "idle"
    /\ PubTurn(p)
    /\ ~PublishSeesClosed
    /\ LET m == nextMsg
           copy == Lookup(subs, subj)
       IN  /\ pmsg' = [pmsg EXCEPT ![p] = m]
           /\ pcopy' = [pcopy EXCEPT ![p] = copy]
           /\ ppc' = [ppc EXCEPT ![p] = IF Returns(copy) THEN "idle" ELSE "enqueue"]
           /\ presult' = [presult EXCEPT ![p] = IF Returns(copy) THEN "nil" ELSE "none"]
           /\ overlap' = [overlap EXCEPT ![m] = {pmsg[q] : q \in {r \in Pubs : ppc[r] = "enqueue"}}]
    /\ nextMsg' = nextMsg + 1
    /\ late' = IF closeReturned THEN late \cup {"Publish"} ELSE late
    /\ UNCHANGED <<busVars, subVars, userVars, clVars, panicked,
                   dropped, viaOvf, unsubAt, closeReturned, racing>>
    /\ UNCHANGED onceVars
    /\ UNCHANGED srvVars

\* enqueue: s.sendMu.Lock() succeeds on the head of the copy.  Lock and the select
\* that follows it are one step: between them the caller only holds a mutex that
\* no other goroutine can take, so every run is equivalent to one where the
\* lock is taken right before the select.
Locks(p) == ppc[p] = "enqueue" /\ ~sendMu[Head(pcopy[p])]

\* enqueue returned for the head of the copy: next subscription, or return nil.
Advance(p) ==
    LET rest == Tail(pcopy[p]) IN
    /\ pcopy' = [pcopy EXCEPT ![p] = rest]
    /\ ppc' = [ppc EXCEPT ![p] = IF Returns(rest) THEN "idle" ELSE "enqueue"]
    /\ presult' = [presult EXCEPT ![p] = IF Returns(rest) THEN "nil" ELSE "none"]

\* select { case s.ch <- msg: ... }: the buffer has room, send and unlock.
EnqueueSend(p) ==
    /\ Running
    /\ Locks(p)
    /\ LET s == Head(pcopy[p]) IN
       /\ ~chClosed[s]
       /\ Len(ch[s]) < QueueCap
       /\ ch' = [ch EXCEPT ![s] = Append(@, pmsg[p])]
       /\ sendMu' = [sendMu EXCEPT ![s] = FALSE]
    /\ Advance(p)
    /\ UNCHANGED <<budget, busVars, sres, subject, chClosed, ovf, once, wpc, delivered, inHandler,
                   pmsg, nextMsg, userVars, clVars, panicked,
                   histVars>>
    /\ UNCHANGED onceVars
    /\ UNCHANGED srvVars

\* Mutation of LockedAfterSpawn: enqueue unlocks sendMu when it starts the
\* detached goroutine instead of leaving the unlock to the goroutine.
UnlockedAfterSpawn == FALSE

\* sendMu after the default branch has started the detached goroutine:
\* it stays locked until the goroutine's deferred Unlock.
LockedAfterSpawn == TRUE

\* select { default: go func() {...}() }: the buffer is full, hand the message to
\* a detached goroutine that keeps sendMu, and return.
EnqueueSpawn(p) ==
    /\ Running
    /\ Locks(p)
    /\ LET s == Head(pcopy[p]) IN
       /\ ~chClosed[s]
       /\ Len(ch[s]) >= QueueCap
       /\ ovf' = [ovf EXCEPT ![s] = Append(@, pmsg[p])]
       /\ sendMu' = [sendMu EXCEPT ![s] = LockedAfterSpawn]
    /\ Advance(p)
    /\ UNCHANGED <<budget, busVars, sres, subject, ch, chClosed, once, wpc, delivered, inHandler,
                   pmsg, nextMsg, userVars, clVars, panicked,
                   histVars>>
    /\ UNCHANGED onceVars
    /\ UNCHANGED srvVars

\* select on a closed channel: the send case panics in the caller of Publish,
\* where nothing recovers it; the program terminates.
EnqueuePanic(p) ==
    /\ Running
    /\ Locks(p)
    /\ chClosed[Head(pcopy[p])]
    /\ panicked' = TRUE
    /\ UNCHANGED <<budget, busVars, subVars, pubVars, userVars, clVars, histVars>>
    /\ UNCHANGED onceVars
    /\ UNCHANGED srvVars

\* The detached goroutine's blocking send completes; deferred Unlock.  The send
\* and the unlock are one step: in between the goroutine only holds sendMu, and a
\* caller that takes sendMu later sees the same channel either way.  A sender
\* parked on a full channel is the step being disabled.
OverflowSend(s) ==
    /\ Running
    /\ Len(ovf[s]) > 0
    /\ ~chClosed[s]
    /\ Len(ch[s]) < QueueCap
    /\ \E i \in 1..Len(ovf[s]) :
         /\ ch' = [ch EXCEPT ![s] = Append(@, ovf[s][i])]
         /\ ovf' = [ovf EXCEPT ![s] =
                      SubSeq(ovf[s], 1, i - 1) \o SubSeq(ovf[s], i + 1, Len(ovf[s]))]
         /\ viaOvf' = viaOvf \cup {<<ovf[s][i], s>>}
    /\ sendMu' = [sendMu EXCEPT ![s] = FALSE]
    /\ UNCHANGED <<budget, busVars, sres, subject, chClosed, once, wpc, delivered, inHandler,
                   pubVars, userVars, clVars, panicked,
                   overlap, dropped, unsubAt, closeReturned, racing, late>>
    /\ UNCHANGED onceVars
    /\ UNCHANGED srvVars

\* Mutation of UnlockedOnAbort: Unlock is written after the send instead of
\* being deferred, so a send that panics skips it.
LockedOnAbort == TRUE

\* sendMu after the detached goroutine's send has panicked: the deferred Unlock
\* has run.
UnlockedOnAbort == FALSE

\* The detached goroutine's send finds the channel closed: the panic is
\* recovered, the message is dropped; deferred Unlock.
OverflowAbort(s) ==
    /\ Running
    /\ Len(ovf[s]) > 0
    /\ chClosed[s]
    /\ ovf' = [ovf EXCEPT ![s] = Tail(@)]
    /\ sendMu' = [sendMu EXCEPT ![s] = UnlockedOnAbort]
    /\ dropped' = dropped \cup {<<Head(ovf[s]), s>>}
    /\ UNCHANGED <<budget, busVars, sres, subject, ch, chClosed, once, wpc, delivered, inHandler,
                   pubVars, userVars, clVars, panicked,
                   overlap, viaOvf, unsubAt, closeReturned, racing, late>>
    /\ UNCHANGED onceVars
    /\ UNCHANGED srvVars

\* ------------------------------ Unsubscribe ------------------------------
\* Mutation of OnceFree: nothing guards the function, every call runs it.
OnceAlwaysFree(s) == TRUE

\* s.once.Do(f) starts f: no call of Do on s.once has started f yet.
OnceFree(s) == once[s] = "idle"

\* Mutation of OnceReturns: a call that is not the first returns at once, also
\* while the first call's function is still running (a flag instead of sync.Once).
OnceReturnsEarly(s) == once[s] # "idle"

\* s.once.Do returns without running f: only after the first call's f has returned.
OnceReturns(s) == once[s] = "done"

\* close(s.ch); the function passed to once.Do returns, and so does once.Do.
\* close of a channel that is already closed panics.
CloseCh(s) ==
    /\ chClosed' = [chClosed EXCEPT ![s] = TRUE]
    /\ once' = [once EXCEPT ![s] = "done"]
    /\ closes' = [closes EXCEPT ![s] = @ + 1]
    /\ atClose' = [atClose EXCEPT ![s] = ch[s]]
    /\ panicked' = (panicked \/ chClosed[s])

\* A user calls Unsubscribe on a handle Subscribe returned and is the first to
\* reach s.once: once.Do starts the function.
UnsubscribeCall(u, s) ==
    /\ Running
    /\ budget > 0
    /\ budget' = budget - 1
    /\ upc[u] = "idle"
    /\ UserTurn(u)
    /\ sres[s] = "ok"
    /\ OnceFree(s)
    /\ once' = [once EXCEPT ![s] = "running"]
    /\ upc' = [upc EXCEPT ![u] = "remove"]
    /\ utarget' = [utarget EXCEPT ![u] = s]
    /\ UNCHANGED <<busVars, sres, subject, ch, chClosed, sendMu, ovf, wpc, delivered, inHandler,
                   pubVars, clVars, panicked, histVars>>
    /\ UNCHANGED onceVars
    /\ UNCHANGED srvVars

\* A user calls Unsubscribe when another call has already started the function:
\* once.Do blocks until that call's function has returned.
UnsubscribeAgain(u, s) ==
    /\ Running
    /\ budget > 0
    /\ budget' = budget - 1
    /\ upc[u] = "idle"
    /\ UserTurn(u)
    /\ sres[s] = "ok"
    /\ ~OnceFree(s)
    /\ upc' = [upc EXCEPT ![u] = "once"]
    /\ utarget' = [utarget EXCEPT ![u] = s]
    /\ UNCHANGED <<busVars, subVars, pubVars, clVars, panicked, histVars>>
    /\ UNCHANGED onceVars
    /\ UNCHANGED srvVars

\* Step 1 of the function: under sp.mu, remove s from the map.
UnsubscribeRemove(u) ==
    /\ Running
    /\ upc[u] = "remove"
    /\ subs' = RegistryRemove(subs, utarget[u])
    /\ removals' = [removals EXCEPT ![utarget[u]] = @ + 1]
    /\ upc' = [upc EXCEPT ![u] = "close"]
    /\ UNCHANGED <<budget, closed, wg, subVars, pubVars, utarget, clVars, panicked, histVars>>
    /\ UNCHANGED <<closes, atClose>>
    /\ UNCHANGED srvVars

\* Step 2 of the function: close the channel; Unsubscribe returns.
UnsubscribeClose(u) ==
    /\ Running
    /\ upc[u] = "close"
    /\ CloseCh(utarget[u])
    /\ upc' = [upc EXCEPT ![u] = "done"]
    /\ unsubAt' = [unsubAt EXCEPT ![utarget[u]] = IF @ = 0 THEN nextMsg ELSE @]
    /\ UNCHANGED <<budget, busVars, sres, subject, ch, sendMu, ovf, wpc, delivered, inHandler,
                   pubVars, utarget, clVars,
                   overlap, dropped, viaOvf, closeReturned, racing, late>>
    /\ UNCHANGED removals
    /\ UNCHANGED srvVars

\* The user's call is not the first: once.Do returns, Unsubscribe returns.
UnsubscribeSkip(u) ==
    /\ Running
    /\ upc[u] = "once"
    /\ OnceReturns(utarget[u])
    /\ upc' = [upc EXCEPT ![u] = "done"]
    /\ unsubAt' = [unsubAt EXCEPT ![utarget[u]] = IF @ = 0 THEN nextMsg ELSE @]
    /\ UNCHANGED <<budget, busVars, subVars, pubVars, utarget, clVars, panicked,
                   overlap, dropped, viaOvf, closeReturned, racing, late>>
    /\ UNCHANGED onceVars
    /\ UNCHANGED srvVars

\* ------------------------------ Close ------------------------------
\* Mutation of CloseSeesClosed: Close does not look at sp.closed.
CloseIgnoresClosed == FALSE

\* if sp.closed, read by Close under the write lock.
CloseSeesClosed == closed

\* Close on a closed bus: ErrClosed under the lock, nothing else changes.
CloseClosed(c) ==
    /\ Running
    /\ budget > 0
    /\ budget' = budget - 1
    /\ cpc[c] = "idle"
    /\ CloseTurn(c)
    /\ CloseSeesClosed
    /\ cpc' = [cpc EXCEPT ![c] = "done"]
    /\ cresult' = [cresult EXCEPT ![c] = "ErrClosed"]
    /\ closeReturned' = TRUE
    /\ UNCHANGED <<busVars, subVars, pubVars, userVars, ctoClose, cctx, waiter, panicked,
                   overlap, dropped, viaOvf, unsubAt, racing, late>>
    /\ UNCHANGED onceVars
    /\ UNCHANGED srvVars

\* Close's wait starts once toClose is exhausted: go func() { wg.Wait(); close(done) }().
StartWait(c, rest) ==
    /\ ctoClose' = [ctoClose EXCEPT ![c] = rest]
    /\ cpc' = [cpc EXCEPT ![c] = IF Len(rest) = 0 THEN "wait" ELSE "unsub"]
    /\ waiter' = [waiter EXCEPT ![c] = IF Len(rest) = 0 THEN "waiting" ELSE "none"]

\* Close on an open bus: under the lock set closed, collect every subscription
\* (the map is ranged over in any order), set the map to nil.
CloseCall(c, ctx) ==
    /\ Running
    /\ budget > 0
    /\ budget' = budget - 1
    /\ cpc[c] = "idle"
    /\ CloseTurn(c)
    /\ ~CloseSeesClosed
    /\ closed' = TRUE
    /\ cctx' = [cctx EXCEPT ![c] = ctx]
    /\ \E order \in Orderings(Keys(subs)) : StartWait(c, Flatten(subs, order))
    /\ subs' = NewSubPub
    /\ racing' = {p \in Pubs : ppc[p] # "idle"}
    /\ UNCHANGED <<wg, subVars, pubVars, userVars, cresult, panicked,
                   overlap, dropped, viaOvf, unsubAt, closeReturned, late>>
    /\ UNCHANGED onceVars
    /\ UNCHANGED srvVars

\* sub.unsubscribe() on the head of toClose, first call on its once: the function
\* starts and, under sp.mu, looks s up in the map (set to nil by this Close call).
CloseUnsubRemove(c) ==
    /\ Running
    /\ cpc[c] = "unsub"
    /\ OnceFree(Head(ctoClose[c]))
    /\ once' = [once EXCEPT ![Head(ctoClose[c])] = "running"]
    /\ subs' = RegistryRemove(subs, Head(ctoClose[c]))
    /\ removals' = [removals EXCEPT ![Head(ctoClose[c])] = @ + 1]
    /\ cpc' = [cpc EXCEPT ![c] = "close"]
    /\ UNCHANGED <<budget, closed, wg, sres, subject, ch, chClosed, sendMu, ovf, wpc, delivered, inHandler,
                   pubVars, userVars, ctoClose, cctx, cresult, waiter, panicked, histVars>>
    /\ UNCHANGED <<closes, atClose>>
    /\ UNCHANGED srvVars

\* ... close(s.ch), then on to the next subscription.
CloseUnsubClose(c) ==
    /\ Running
    /\ cpc[c] = "close"
    /\ CloseCh(Head(ctoClose[c]))
    /\ StartWait(c, Tail(ctoClose[c]))
    /\ UNCHANGED <<budget, busVars, sres, subject, ch, sendMu, ovf, wpc, delivered, inHandler,
                   pubVars, userVars, cctx, cresult, histVars>>
    /\ UNCHANGED removals
    /\ UNCHANGED srvVars

\* sub.unsubscribe() on a subscription a user has already unsubscribed.
CloseUnsubSkip(c) ==
    /\ Running
    /\ cpc[c] = "unsub"
    /\ OnceReturns(Head(ctoClose[c]))
    /\ StartWait(c, Tail(ctoClose[c]))
    /\ UNCHANGED <<budget, busVars, subVars, pubVars, userVars, cctx, cresult, panicked, histVars>>
    /\ UNCHANGED onceVars
    /\ UNCHANGED srvVars

\* The waiter goroutine: wg.Wait() returns, close(done).
WaiterDone(c) ==
    /\ Running
    /\ waiter[c] = "waiting"
    /\ wg = 0
    /\ waiter' = [waiter EXCEPT ![c] = "finished"]
    /\ UNCHANGED <<budget, busVars, subVars, pubVars, userVars, cpc, ctoClose, cctx, cresult,
                   panicked, histVars>>
    /\ UNCHANGED onceVars
    /\ UNCHANGED srvVars

\* select: case <-done: return nil
CloseReturnNil(c) ==
    /\ Running
    /\ cpc[c] = "wait"
    /\ waiter[c] = "finished"
    /\ cpc' = [cpc EXCEPT ![c] = "done"]
    /\ cresult' = [cresult EXCEPT ![c] = "nil"]
    /\ closeReturned' = TRUE
    /\ UNCHANGED <<budget, busVars, subVars, pubVars, userVars, ctoClose, cctx, waiter, panicked,
                   overlap, dropped, viaOvf, unsubAt, racing, late>>
    /\ UNCHANGED onceVars
    /\ UNCHANGED srvVars

\* select: case <-ctx.Done(): return ctx.Err()
CloseReturnCtxErr(c) ==
    /\ Running
    /\ cpc[c] = "wait"
    /\ cctx[c] = "cancelled"
    /\ cpc' = [cpc EXCEPT ![c] = "done"]
    /\ cresult' = [cresult EXCEPT ![c] = "ctxErr"]
    /\ closeReturned' = TRUE
    /\ UNCHANGED <<budget, busVars, subVars, pubVars, userVars, ctoClose, cctx, waiter, panicked,
                   overlap, dropped, viaOvf, unsubAt, racing, late>>
    /\ UNCHANGED onceVars
    /\ UNCHANGED srvVars

\* ------------------------------ specification ------------------------------
Next ==
    \/ \E s \in Subs : SubscribeClosed(s)
    \/ \E s \in Subs, subj \in Subjects : Subscribe(s, subj)
    \/ \E s \in Subs : WorkerRecv(s)
    \/ \E s \in Subs : HandlerReturn(s)
    \/ \E s \in Subs : WorkerExit(s)
    \/ \E p \in Pubs : PublishClosed(p)
    \/ \E p \in Pubs, subj \in Subjects : PublishCall(p, subj)
    \/ \E p \in Pubs : EnqueueSend(p)
    \/ \E p \in Pubs : EnqueueSpawn(p)
    \/ \E p \in Pubs : EnqueuePanic(p)
    \/ \E s \in Subs : OverflowSend(s)
    \/ \E s \in Subs : OverflowAbort(s)
    \/ \E u \in Users, s \in Subs : UnsubscribeCall(u, s)
    \/ \E u \in Users, s \in Subs : UnsubscribeAgain(u, s)
    \/ \E u \in Users : UnsubscribeRemove(u)
    \/ \E u \in Users : UnsubscribeClose(u)
    \/ \E u \in Users : UnsubscribeSkip(u)
    \/ \E c \in Closers : CloseClosed(c)
    \/ \E c \in Closers, ctx \in CtxKinds : CloseCall(c, ctx)
    \/ \E c \in Closers : CloseUnsubRemove(c)
    \/ \E c \in Closers : CloseUnsubClose(c)
    \/ \E c \in Closers : CloseUnsubSkip(c)
    \/ \E c \in Closers : WaiterDone(c)
    \/ \E c \in Closers : CloseReturnNil(c)
    \/ \E c \in Closers : CloseReturnCtxErr(c)

Init == InitWith(MaxCalls)

Spec == Init /\ [][Next]_vars

\* The Go scheduler runs every runnable goroutine: each step of a goroutine that
\* stays possible is taken.  A goroutine waiting for sendMu gets it if it is free
\* again and again (sync.Mutex hands over to starving waiters).  Callers are free
\* to make no further call; only the handlers in `returning` are known to return.
Sched(returning) ==
    /\ \A s \in Subs :
          /\ WF_vars(WorkerRecv(s))
          /\ WF_vars(WorkerExit(s))
          /\ WF_vars(OverflowSend(s))
          /\ WF_vars(OverflowAbort(s))
    /\ \A s \in returning : WF_vars(HandlerReturn(s))
    /\ \A p \in Pubs :
          /\ SF_vars(EnqueueSend(p))
          /\ SF_vars(EnqueueSpawn(p))
          /\ SF_vars(EnqueuePanic(p))
    /\ \A u \in Users :
          /\ WF_vars(UnsubscribeRemove(u))
          /\ WF_vars(UnsubscribeClose(u))
          /\ WF_vars(UnsubscribeSkip(u))
    /\ \A c \in Closers :
          /\ WF_vars(CloseUnsubRemove(c))
          /\ WF_vars(CloseUnsubClose(c))
          /\ WF_vars(CloseUnsubSkip(c))
          /\ WF_vars(WaiterDone(c))
          /\ WF_vars(CloseReturnNil(c))
          /\ WF_vars(CloseReturnCtxErr(c))

\* Calls made in the runs checked for liveness.
FairCalls == 4

InitFair == InitWith(FairCalls)

\* Every operation, fair scheduling, every handler returns.
FairSpec ==
    /\ InitFair
    /\ [][Next]_vars
    /\ Sched(Subs)

\* One goroutine publishes on one subject, callers subscribe to it: no
\* Unsubscribe, no Close.
NextPublish ==
    \/ \E s \in Subs : Subscribe(s, "a")
    \/ \E s \in Subs : WorkerRecv(s)
    \/ \E s \in Subs : HandlerReturn(s)
    \/ PublishCall(1, "a")
    \/ \E p \in Pubs : EnqueueSend(p)
    \/ \E p \in Pubs : EnqueueSpawn(p)
    \/ \E s \in Subs : OverflowSend(s)

\* Subscriptions whose handler always returns; the handler of subscription 1 may
\* block for ever.
Returning == {2}

\* Calls made in the runs with a blocking handler.
BlockCalls == 6

InitBlock == InitWith(BlockCalls)

\* Subscribe and Publish only, fair scheduling, only the handlers of Returning
\* are known to return.
BlockSpec ==
    /\ InitBlock
    /\ [][NextPublish]_vars
    /\ Sched(Returning)

\* One subscription on one subject, two publishers, one user and one closer:
\* the operations around the close of a channel.
NextTeardown ==
    \/ Subscribe(1, "a")
    \/ WorkerRecv(1)
    \/ HandlerReturn(1)
    \/ WorkerExit(1)
    \/ \E p \in Pubs : PublishCall(p, "a")
    \/ \E p \in Pubs : EnqueueSend(p)
    \/ \E p \in Pubs : EnqueueSpawn(p)
    \/ \E p \in Pubs : EnqueuePanic(p)
    \/ OverflowSend(1)
    \/ OverflowAbort(1)
    \/ UnsubscribeCall(1, 1)
    \/ UnsubscribeRemove(1)
    \/ UnsubscribeClose(1)
    \/ \E ctx \in CtxKinds : CloseCall(1, ctx)
    \/ CloseUnsubRemove(1)
    \/ CloseUnsubClose(1)
    \/ CloseUnsubSkip(1)
    \/ WaiterDone(1)
    \/ CloseReturnNil(1)
    \/ CloseReturnCtxErr(1)

\* Calls made in the runs around the close of a channel.
TeardownCalls == 5

InitTeardown == InitWith(TeardownCalls)

\* The operations around the close of a channel, fair scheduling, every handler
\* returns.
TeardownSpec ==
    /\ InitTeardown
    /\ [][NextTeardown]_vars
    /\ Sched(Subs)

\* ------------------------------ properties ------------------------------
Delivered(s) == SeqToSet(delivered[s])

\* Subscription s was in the copy of the slice the Publish call of m took.
Snapshotted(m, s) ==
    \/ m \in Delivered(s)
    \/ m \in SeqToSet(ch[s])
    \/ m \in SeqToSet(ovf[s])
    \/ <<m, s>> \in dropped
    \/ \E p \in Pubs : ppc[p] = "enqueue" /\ pmsg[p] = m /\ s \in SeqToSet(pcopy[p])

\* The Publish call of m1 returned before the Publish call of m2 started.
Sequential(m1, m2) == m1 < m2 /\ m1 \notin overlap[m2]

\* The j-th message handled by s comes after every message that was published
\* before it and snapshotted for s, and all of those went to the handler.
InOrder(s, j) ==
    LET d == delivered[s] IN
    \A m \in Msgs :
        (Sequential(m, d[j]) /\ Snapshotted(m, s))
            => \E i \in 1..(j - 1) : d[i] = m

\* C1: messages published one call after another (each call returns before the
\* next starts) reach the handler of a subscription in the order of the calls,
\* none skipped and none overtaken, whatever the other goroutines do and whether
\* or not the detached overflow insert was used.
C1_FIFO ==
    \A s \in Subs : \A j \in 1..Len(delivered[s]) :
        /\ InOrder(s, j)
        /\ \A i \in 1..(j - 1) : ~Sequential(delivered[s][j], delivered[s][i])

\* C1 witness: three messages published one after another were handled in that
\* order, the last of them inserted by the detached goroutine because the queue
\* was full.
C1_Witness ==
    \E s \in Subs :
        /\ Len(delivered[s]) >= 3
        /\ \A i \in 1..2 : Sequential(delivered[s][i], delivered[s][i + 1])
        /\ <<delivered[s][3], s>> \in viaOvf

\* C2: no Publish call waits on a handler: a call is never blocked on a sendMu
\* that is held by a detached insert which itself waits for room in a full queue
\* whose worker is inside the handler.
C2_PublishNeverWaitsOnHandler ==
    \A p \in Pubs :
        ppc[p] = "enqueue" =>
            LET s == Head(pcopy[p]) IN
            ~(/\ sendMu[s]
              /\ Len(ovf[s]) > 0
              /\ ~chClosed[s]
              /\ Len(ch[s]) >= QueueCap
              /\ wpc[s] = "handling")

\* C3: with the handler of another subscription free never to return, every
\* message published while a subscription whose handler always returns was
\* registered is eventually passed to that handler.
C3_NonInterference ==
    \A s \in Returning : \A m \in Msgs : Snapshotted(m, s) ~> (m \in Delivered(s))

\* C4: no send on a closed queue raises an unrecovered panic.
C4_NoUnrecoveredPanic == ~panicked

\* C5: when Close returns nil, every message whose Publish call had returned nil
\* before Close was called has been passed to the handler of every subscription
\* of its snapshot.
C5_CloseDrains ==
    \A c \in Closers :
        cresult[c] = "nil" =>
            \A m \in Msgs, s \in Subs :
                (Snapshotted(m, s) /\ ~(\E p \in racing : pmsg[p] = m))
                    => m \in Delivered(s)

\* C6: once an Unsubscribe call on s has returned, no message whose Publish call
\* starts afterwards is passed to the handler of s.
C6_UnsubscribeFinality ==
    \A s \in Subs :
        unsubAt[s] > 0 => \A m \in Delivered(s) : m < unsubAt[s]

\* C6 witness: after Unsubscribe on s returned, a message was published on the
\* subject of s and handled by another subscription of that subject.
C6_Witness ==
    \E s \in Subs, r \in Subs :
        /\ s # r
        /\ unsubAt[s] > 0
        /\ subject[s] = subject[r]
        /\ Len(delivered[s]) > 0
        /\ \E m \in Delivered(r) : m >= unsubAt[s]

\* C7: after a Close call has returned, a Subscribe or Publish call returns
\* ErrClosed, starts no worker, registers nothing and enqueues nothing.
C7_PostCloseRejection ==
    [][closeReturned =>
        /\ sres' # sres =>
              /\ \E s \in Subs : sres' = [sres EXCEPT ![s] = "ErrClosed"]
              /\ UNCHANGED <<busVars, subject, ch, chClosed, sendMu, ovf, once, wpc,
                             delivered, inHandler>>
        /\ nextMsg' # nextMsg =>
              /\ \E p \in Pubs : presult' = [presult EXCEPT ![p] = "ErrClosed"]
              /\ UNCHANGED <<busVars, subVars, ppc, pcopy>>]_vars

\* C7 witness: a Subscribe call and a Publish call were both made after a Close
\* call had returned.
C7_Witness == late = {"Subscribe", "Publish"}

\* Close calls that perform the shutdown.
Performers == {c \in Closers : cpc[c] # "idle" /\ cresult[c] # "ErrClosed"}

\* C8: among all Close calls exactly one performs the shutdown; every other call
\* returns ErrClosed at once, changing no bus state and starting no wait.
C8_CloseOnce ==
    /\ []((\E c \in Closers : cpc[c] # "idle") => Cardinality(Performers) = 1)
    /\ [][\A c \in Closers :
            (cpc[c] = "idle" /\ cpc'[c] # "idle" /\ closed) =>
                /\ cpc'[c] = "done"
                /\ cresult'[c] = "ErrClosed"
                /\ UNCHANGED <<busVars, subVars, waiter, ctoClose>>]_vars

\* C8 witness: a second Close call has returned ErrClosed while the first is
\* still waiting for workers.
C8_Witness ==
    \E c \in Closers, d \in Closers :
        /\ cpc[c] = "wait" /\ wg > 0
        /\ cpc[d] = "done" /\ cresult[d] = "ErrClosed"

\* C9: the shutdown Close call made with an already cancelled context returns
\* the context's error, never nil.
C9_CancelledCloseReturnsError ==
    \A c \in Closers :
        (cpc[c] = "done" /\ cresult[c] # "ErrClosed" /\ cctx[c] = "cancelled")
            => cresult[c] = "ctxErr"

\* C10: Close returns nil only when every worker ever started has exited, and
\* with handlers that return a Close with a never-firing context returns nil.
C10_NoLeakedWorkers ==
    \A c \in Closers :
        /\ [](cresult[c] = "nil" => (wg = 0 /\ \A s \in Subs : wpc[s] \in {"none", "exited"}))
        /\ (cpc[c] \in {"unsub", "close", "wait"} /\ cctx[c] = "background")
               ~> (cresult[c] = "nil")

\* A closed queue takes no message: its buffer only shrinks.
ClosedQueueTakesNoMessage ==
    [][\A s \in Subs : chClosed[s] =>
          \E k \in 0..Len(ch[s]) : ch'[s] = SubSeq(ch[s], k + 1, Len(ch[s]))]_vars

\* A Close call with a cancelled context that returns while a handler is still
\* running returns the context's error.
CancelledCloseWithRunningHandler ==
    [][\A c \in Closers :
          (cpc[c] = "wait" /\ cpc'[c] = "done" /\ cctx[c] = "cancelled" /\ wg > 0)
              => cresult'[c] = "ctxErr"]_vars

\* With no handler known to return, a Close call with a cancelled context still
\* returns unless a panic has ended the program.
CancelledCloseReturns ==
    \A c \in Closers :
        (cpc[c] \in {"unsub", "close", "wait"} /\ cctx[c] = "cancelled")
            ~> (cpc[c] = "done" \/ panicked)

\* Every operation, fair scheduling, no handler is known to return.
StuckSpec ==
    /\ InitFair
    /\ [][Next]_vars
    /\ Sched({})

\* Unless a panic has ended the program, the Close of C10 does return nil.
CloseReturnsUnlessPanic ==
    \A c \in Closers :
        (cpc[c] \in {"unsub", "close", "wait"} /\ cctx[c] = "background")
            ~> (cresult[c] = "nil" \/ panicked)

\* Close returns nil only when every worker ever started has exited.
NilOnlyWhenWorkersExited ==
    \A c \in Closers :
        cresult[c] = "nil" => (wg = 0 /\ \A s \in Subs : wpc[s] \in {"none", "exited"})

\* No message is passed to the handler of a subscription twice.
NoDuplicate(s) ==
    \A i \in 1..Len(delivered[s]) : \A j \in 1..Len(delivered[s]) :
        delivered[s][i] = delivered[s][j] => i = j

\* C11: with fair scheduling and handlers that return, a message published while
\* s was registered is eventually passed to the handler of s, unless s is
\* unsubscribed or the bus is closed afterwards, and never more than once.
C11_DeliveryCompleteness ==
    \A s \in Subs :
        /\ [] NoDuplicate(s)
        /\ \A m \in Msgs :
              Snapshotted(m, s) ~> (m \in Delivered(s) \/ once[s] # "idle" \/ closed)

\* Unless a panic has ended the program, the delivery of C11 does happen.
DeliveryUnlessPanic ==
    \A s \in Subs : \A m \in Msgs :
        Snapshotted(m, s) ~> (m \in Delivered(s) \/ once[s] # "idle" \/ closed \/ panicked)

\* No handler is passed a message twice.
HandledOnce == \A s \in Subs : NoDuplicate(s)

\* C12: however many Unsubscribe calls are made on a subscription, by users and
\* by Close, together or one after another, the removal from the map and the
\* close of the channel each run at most once, exactly once when a call has
\* returned, and a call that is not the first changes nothing.
C12_UnsubscribeIdempotent ==
    /\ [](\A s \in Subs :
            /\ removals[s] <= 1
            /\ closes[s] <= 1
            /\ (once[s] = "done" \/ unsubAt[s] > 0) => (removals[s] = 1 /\ closes[s] = 1))
    /\ [][/\ \A u \in Users :
                (upc[u] \in {"idle", "once"} /\ upc'[u] \in {"once", "done"} /\ upc'[u] # upc[u])
                    => UNCHANGED <<busVars, subVars, onceVars>>
          /\ \A c \in Closers :
                (cpc[c] = "unsub" /\ cpc'[c] # "unsub" /\ once[Head(ctoClose[c])] # "idle")
                    => UNCHANGED <<busVars, subVars, onceVars>>]_vars

\* C12 witness: two users have both returned from Unsubscribe on the same
\* subscription, a Close call has finished too, and the channel was closed once.
C12_Witness ==
    \E s \in Subs :
        /\ \A u \in Users : upc[u] = "done" /\ utarget[u] = s
        /\ \E c \in Closers : cpc[c] = "done" /\ cresult[c] = "nil"
        /\ closes[s] = 1

\* The results Publish sets: ErrClosed exactly when sp.closed is set at its check,
\* changing nothing then; otherwise nil, at once and with no bus or subscription
\* state changed when the subject has no subscription, and after the last enqueue
\* otherwise, also when that enqueue found the queue full.
PublishResults ==
    /\ [](\A p \in Pubs : ppc[p] = "enqueue" => presult[p] = "none")
    /\ [][/\ (nextMsg' # nextMsg /\ closed) =>
                /\ \E p \in Pubs :
                      ppc[p] = "idle" /\ presult' = [presult EXCEPT ![p] = "ErrClosed"]
                /\ UNCHANGED <<busVars, subVars, ppc, pcopy>>
          /\ (nextMsg' # nextMsg /\ ~closed) =>
                /\ \E p \in Pubs :
                      /\ ppc[p] = "idle"
                      /\ pmsg'[p] = nextMsg
                      /\ presult'[p] = IF pcopy'[p] = <<>> THEN "nil" ELSE "none"
                      /\ \E subj \in Subjects : pcopy'[p] = Lookup(subs, subj)
                /\ UNCHANGED <<busVars, subVars>>
          /\ \A p \in Pubs :
                (ppc[p] = "enqueue" /\ pcopy'[p] # pcopy[p]) =>
                    presult'[p] = IF pcopy'[p] = <<>> THEN "nil" ELSE "none"]_vars

\* C13: a Publish call returns ErrClosed exactly when sp.closed is set at its
\* check and otherwise returns nil, whether the subject has no subscription or a
\* queue is full: a call that passed the check is never ended by a panic.
C13_PublishOnlyErrClosed ==
    /\ PublishResults
    /\ [](\A p \in Pubs : ppc[p] = "enqueue" => ~panicked)

\* With fair scheduling and handlers that return, a Publish call on an open bus
\* returns nil unless a panic has ended the program.
PublishReturnsUnlessPanic ==
    \A p \in Pubs : (ppc[p] = "enqueue") ~> (ppc[p] = "idle" \/ panicked)

\* The subscriptions held by the map.
Registered(m) == UNION {SeqToSet(m[k].list) : k \in Keys(m)}

\* C14: once sp.closed is true it stays true, and from then on the map gains no
\* subject and no subscription.
C14_ClosedFreezesRegistry ==
    [][closed =>
          /\ closed'
          /\ Keys(subs') \subseteq Keys(subs)
          /\ Registered(subs') \subseteq Registered(subs)]_vars

\* C14 witness: the bus was closed with a subscription registered, and a
\* Subscribe call made after that was refused.
C14_Witness ==
    /\ closed
    /\ \E s \in Subs, r \in Subs : sres[s] = "ok" /\ sres[r] = "ErrClosed"

\* C15: at most one call of a subscription's handler is in progress, made by the
\* one worker started for the subscription when Subscribe created it.
C15_HandlerExclusivity ==
    \A s \in Subs :
        /\ inHandler[s] <= 1
        /\ inHandler[s] = 1 <=> wpc[s] = "handling"
        /\ sres[s] = "ok" <=> wpc[s] # "none"

\* C15 witness: the handlers of two subscriptions are running at the same time,
\* with further messages waiting in the queue of each.
C15_Witness ==
    \A s \in Subs : inHandler[s] = 1 /\ Len(ch[s]) > 0

\* The Close call of c performed the shutdown and has returned.
ShutdownReturned(c) == cpc[c] = "done" /\ cresult[c] \in {"nil", "ctxErr"}

\* C16: when the Close call that performs the shutdown has returned, with nil or
\* with the context's error, the map is empty and the channel of every
\* subscription ever created is closed.
C16_ShutdownTearsDown ==
    \A c \in Closers :
        ShutdownReturned(c) =>
            /\ Keys(subs) = {}
            /\ \A s \in Subs : sres[s] = "ok" => chClosed[s]

\* A user's Unsubscribe call on s has removed s from the map and has not yet
\* closed the channel.
UserClosing(s) == \E u \in Users : upc[u] = "close" /\ utarget[u] = s

\* C16 amended: when the Close call that performs the shutdown has returned, the
\* map is empty and the channel of every subscription ever created is closed,
\* except a subscription that a user's Unsubscribe call, still in progress, has
\* removed from the map and is about to close; when Close returned nil there is
\* no exception.
C16_ShutdownTearsDownAmended ==
    \A c \in Closers :
        ShutdownReturned(c) =>
            /\ Keys(subs) = {}
            /\ \A s \in Subs : sres[s] = "ok" =>
                  (chClosed[s] \/ (cresult[c] = "ctxErr" /\ UserClosing(s)))

\* C16 witness: Close has returned the context's error with a handler still
\* running, and the channels of both subscriptions, on two subjects, are closed.
C16_Witness ==
    /\ \E c \in Closers : ShutdownReturned(c) /\ cresult[c] = "ctxErr"
    /\ \A s \in Subs : sres[s] = "ok" /\ chClosed[s]
    /\ subject[1] # subject[2]
    /\ \E s \in Subs : wpc[s] = "handling"

LockReleasedUnlessPanic ==
    \A s \in Subs : (chClosed[s] /\ sendMu[s]) ~> (~sendMu[s] \/ panicked)

\* The messages of the buffer at close that the worker has taken since: the
\* buffer only shrinks from its head once the channel is closed.
TakenSinceClose(s) == Len(atClose[s]) - Len(ch[s])

\* What holds of a channel once it is closed: what is left in the buffer is the
\* tail of the buffer at close, what the worker took since is its head and was
\* passed to the handler last and in that order, and the worker exits only with
\* the buffer empty.
Drained(s) ==
    LET n == TakenSinceClose(s)
        d == delivered[s]
    IN  /\ n >= 0
        /\ n <= Len(d)
        /\ ch[s] = SubSeq(atClose[s], n + 1, Len(atClose[s]))
        /\ SubSeq(d, Len(d) - n + 1, Len(d)) = SubSeq(atClose[s], 1, n)
        /\ wpc[s] = "exited" => n = Len(atClose[s])

\* The workers that have not exited are the ones sp.wg counts, and a worker
\* exits only after its channel was closed.
WorkersCounted ==
    /\ wg = Cardinality({s \in Subs : wpc[s] \in {"recv", "handling"}})
    /\ \A s \in Subs : wpc[s] = "exited" => chClosed[s]

\* Every closed channel is drained in order and every worker is counted once.
DrainedInOrder == WorkersCounted /\ \A s \in Subs : chClosed[s] => Drained(s)

\* C18: when Unsubscribe or Close closes a channel, the messages in its buffer
\* are still passed to the handler, in order, then the worker exits, taking
\* itself off sp.wg once; with fair scheduling and handlers that return the
\* worker does exit.
C18_DrainOnClose ==
    /\ []DrainedInOrder
    /\ \A s \in Subs : chClosed[s] ~> (wpc[s] = "exited")

\* Unless a panic has ended the program, the worker of a closed channel exits.
DrainUnlessPanic ==
    /\ []DrainedInOrder
    /\ \A s \in Subs : chClosed[s] ~> (wpc[s] = "exited" \/ panicked)

\* A worker has drained a buffer that held a message at close, and exited.
DrainedSome ==
    \E s \in Subs : wpc[s] = "exited" /\ Len(atClose[s]) > 0

\* No subject maps to an empty slice, and no slice holds a subscription twice.
MapWellFormed ==
    \A k \in Subjects :
        /\ subs[k].present <=> Len(subs[k].list) > 0
        /\ Cardinality(SeqToSet(subs[k].list)) = Len(subs[k].list)

\* C19: the first Unsubscribe of s takes exactly s out of the slice of its
\* subject, deletes the subject's key exactly when s was the last one, then
\* closes the channel of s; every other subject and subscription, its channel and
\* its worker, is left as it was, and no subject ever maps to an empty slice.
C19_UnsubscribeFrame ==
    /\ []MapWellFormed
    /\ [][\A s \in Subs :
            /\ removals'[s] # removals[s] =>
                  LET k == subject[s]
                      others == SeqToSet(subs[k].list) \ {s}
                  IN  /\ \A j \in Subjects \ {k} : subs'[j] = subs[j]
                      /\ SeqToSet(subs'[k].list) = others
                      /\ subs'[k].present <=> others # {}
                      /\ UNCHANGED <<closed, wg, sres, subject, ch, chClosed, sendMu, ovf,
                                     wpc, delivered, inHandler>>
                      /\ \A r \in Subs \ {s} : once'[r] = once[r]
            /\ closes'[s] # closes[s] =>
                  /\ UNCHANGED <<busVars, sres, subject, ch, sendMu, ovf, wpc, delivered,
                                 inHandler>>
                  /\ chClosed'[s]
                  /\ \A r \in Subs \ {s} : chClosed'[r] = chClosed[r] /\ once'[r] = once[r]]_vars

\* C19 witness: of two subscriptions of one subject the one subscribed first
\* was unsubscribed by a user; the other is still registered, alone in the
\* slice, with its channel open.
C19_Witness ==
    /\ unsubAt[1] > 0
    /\ removals[1] = 1
    /\ subject[1] = subject[2]
    /\ subs[subject[1]] = [present |-> TRUE, list |-> <<2>>]
    /\ ~chClosed[2]

\* The Close call of c is in its loop over toClose.
Unsubscribing(c) == cpc[c] \in {"unsub", "close"}

\* C20: whatever publishers, users and workers do, and whether or not handlers
\* return, the Close call that performs the shutdown finishes its loop over
\* toClose and reaches the wait for the workers or the context.
C20_CloseUnsubscribesAll ==
    \A c \in Closers : Unsubscribing(c) ~> (cpc[c] \in {"wait", "done"})

\* Unless a panic has ended the program, the loop of C20 does finish.
CloseFinishesLoopUnlessPanic ==
    \A c \in Closers : Unsubscribing(c) ~> (cpc[c] \in {"wait", "done"} \/ panicked)

\* While the program runs, Close in its loop can take a step, or waits in
\* once.Do for a user's Unsubscribe call that can take one: it never waits for
\* sendMu, for room in a channel or for a handler.
CloseLoopNeverStuck ==
    \A c \in Closers :
        (Unsubscribing(c) /\ Running) =>
            \/ ENABLED (CloseUnsubRemove(c) \/ CloseUnsubClose(c) \/ CloseUnsubSkip(c))
            \/ \E u \in Users :
                  /\ utarget[u] = Head(ctoClose[c])
                  /\ ENABLED (UnsubscribeRemove(u) \/ UnsubscribeClose(u))

\* The operations around the close of a channel, fair scheduling, no handler is
\* known to return.
TeardownStuckSpec ==
    /\ InitTeardown
    /\ [][NextTeardown]_vars
    /\ Sched({})

\* ------------------------------ registered implies open ------------------------------
\* The worker of s has been started and has not returned.
WorkerLive(s) == wpc[s] \in {"recv", "handling"}

\* Publish has just copied a non-empty slice for p.
TakesSnapshot(p) == ppc[p] = "idle" /\ ppc'[p] = "enqueue"

\* C22: every subscription held by the map has an open channel and a worker that
\* has not exited, and every subscription in a slice Publish copies has an open
\* channel when the copy is made.
C22_RegisteredImpliesOpen ==
    /\ [](\A s \in Registered(subs) : ~chClosed[s] /\ WorkerLive(s))
    /\ [][\A p \in Pubs :
             TakesSnapshot(p) =>
                 \A i \in 1..Len(pcopy'[p]) : ~chClosed[pcopy'[p][i]]]_vars

\* C22 witness: a subscription's channel was closed by Unsubscribe, and a Publish
\* that started after that call returned copied the slice of the same subject,
\* which still holds another subscription and not the closed one.
C22_Witness ==
    \E s \in Subs, p \in Pubs :
        /\ chClosed[s]
        /\ unsubAt[s] > 0
        /\ ppc[p] = "enqueue"
        /\ pmsg[p] >= unsubAt[s]
        /\ subject[Head(pcopy[p])] = subject[s]
        /\ s \notin SeqToSet(pcopy[p])
        /\ SeqToSet(pcopy[p]) \subseteq Registered(subs)

\* ------------------------------ Server.Subscribe ------------------------------
\* Stream handler h of the service holds the subscription h that its call of
\* bus.Subscribe creates; its callback passes each message to stream.Send
\* (delivered[h] is what the stream was sent).

\* The handler's deferred sub.Unsubscribe() has been called.
Unsubscribed(h) == \E u \in Users : upc[u] # "idle" /\ utarget[u] = h

\* The handler's deferred sub.Unsubscribe() has returned.
UnsubscribeReturned(h) == \E u \in Users : upc[u] = "done" /\ utarget[u] = h

\* Bus calls handler h has still to make: Subscribe and the deferred Unsubscribe.
Need(h) ==
    IF sres[h] = "none" THEN 2
    ELSE IF sres[h] = "ok" /\ ~Unsubscribed(h) THEN 1
    ELSE 0

RECURSIVE SumNeed(_)
SumNeed(H) == IF H = {} THEN 0 ELSE LET h == CHOOSE x \in H : TRUE IN Need(h) + SumNeed(H \ {h})

\* The calls of Publish and Close counted by budget leave the handlers the calls
\* they have to make.
Spare == budget > SumNeed(Subs)

\* A Subscribe request arrives: the handler starts.
ServerAccept(h) ==
    /\ Running
    /\ hpc[h] = "idle"
    /\ SubTurn(h)
    /\ hpc' = [hpc EXCEPT ![h] = "subscribe"]
    /\ UNCHANGED <<busVars, subVars, pubVars, userVars, clVars, panicked, budget, histVars,
                   onceVars, hctx>>

\* s.bus.Subscribe(req.GetKey(), ...) on an open bus.
ServerBusSubscribe(h) ==
    /\ hpc[h] = "subscribe"
    /\ \E key \in Subjects : Subscribe(h, key)

\* s.bus.Subscribe(req.GetKey(), ...) on a closed bus.
ServerBusSubscribeClosed(h) ==
    /\ hpc[h] = "subscribe"
    /\ SubscribeClosed(h)

\* if err != nil: return Unavailable; otherwise the Unsubscribe is deferred and
\* the handler waits in <-stream.Context().Done().
ServerSubscribed(h) ==
    /\ Running
    /\ hpc[h] = "subscribe"
    /\ sres[h] # "none"
    /\ hpc' = [hpc EXCEPT ![h] = IF sres[h] = "ErrClosed" THEN "returned" ELSE "waiting"]
    /\ UNCHANGED <<busVars, subVars, pubVars, userVars, clVars, panicked, budget, histVars,
                   onceVars, hctx>>

\* The remote side disconnects or the server stops the stream: the stream's
\* context is done.
StreamDone(h) ==
    /\ Running
    /\ hpc[h] # "idle"
    /\ ~hctx[h]
    /\ hctx' = [hctx EXCEPT ![h] = TRUE]
    /\ UNCHANGED <<busVars, subVars, pubVars, userVars, clVars, panicked, budget, histVars,
                   onceVars, hpc>>

\* <-stream.Context().Done() is received: return nil starts the deferred call.
ServerWake(h) ==
    /\ Running
    /\ hpc[h] = "waiting"
    /\ hctx[h]
    /\ hpc' = [hpc EXCEPT ![h] = "deferred"]
    /\ UNCHANGED <<busVars, subVars, pubVars, userVars, clVars, panicked, budget, histVars,
                   onceVars, hctx>>

\* defer sub.Unsubscribe(), first call on the subscription's once.
ServerUnsubscribe(h) ==
    /\ hpc[h] = "deferred"
    /\ ~Unsubscribed(h)
    /\ \E u \in Users : UnsubscribeCall(u, h)

\* defer sub.Unsubscribe() when Close has already started the function.
ServerUnsubscribeAgain(h) ==
    /\ hpc[h] = "deferred"
    /\ ~Unsubscribed(h)
    /\ \E u \in Users : UnsubscribeAgain(u, h)

\* The deferred call has returned: the handler returns nil.
ServerReturn(h) ==
    /\ Running
    /\ hpc[h] = "deferred"
    /\ UnsubscribeReturned(h)
    /\ hpc' = [hpc EXCEPT ![h] = "returned"]
    /\ UNCHANGED <<busVars, subVars, pubVars, userVars, clVars, panicked, budget, histVars,
                   onceVars, hctx>>

\* Server.Publish: s.bus.Publish(req.GetKey(), req.GetData()).
ServerPublish(p) ==
    /\ Spare
    /\ \E key \in Subjects : PublishCall(p, key)

\* main: bus.Close(ctx) on shutdown.
ServerClose(c) ==
    /\ Spare
    /\ \E ctx \in CtxKinds : CloseCall(c, ctx)

\* The service: stream handlers, one client publishing and the shutdown's Close.
NextServer ==
    \/ \E h \in Subs : ServerAccept(h)
    \/ \E h \in Subs : ServerBusSubscribe(h)
    \/ \E h \in Subs : ServerBusSubscribeClosed(h)
    \/ \E h \in Subs : ServerSubscribed(h)
    \/ \E h \in Subs : StreamDone(h)
    \/ \E h \in Subs : ServerWake(h)
    \/ \E h \in Subs : ServerUnsubscribe(h)
    \/ \E h \in Subs : ServerUnsubscribeAgain(h)
    \/ \E h \in Subs : ServerReturn(h)
    \/ \E u \in Users : UnsubscribeRemove(u)
    \/ \E u \in Users : UnsubscribeClose(u)
    \/ \E u \in Users : UnsubscribeSkip(u)
    \/ \E s \in Subs : WorkerRecv(s)
    \/ \E s \in Subs : HandlerReturn(s)
    \/ \E s \in Subs : WorkerExit(s)
    \/ ServerPublish(1)
    \/ \E p \in Pubs : EnqueueSend(p)
    \/ \E p \in Pubs : EnqueueSpawn(p)
    \/ \E p \in Pubs : EnqueuePanic(p)
    \/ \E s \in Subs : OverflowSend(s)
    \/ \E s \in Subs : OverflowAbort(s)
    \/ ServerClose(1)
    \/ CloseUnsubRemove(1)
    \/ CloseUnsubClose(1)
    \/ CloseUnsubSkip(1)
    \/ WaiterDone(1)
    \/ CloseReturnNil(1)
    \/ CloseReturnCtxErr(1)

\* Bus calls made in the runs of the service.
ServerCalls == 6

InitServer == InitWith(ServerCalls)

\* Every step of a handler that stays possible is taken; whether a stream's
\* context is ever done is up to the remote side and the server.
SchedServer ==
    \A h \in Subs :
        /\ WF_vars(ServerBusSubscribe(h))
        /\ WF_vars(ServerBusSubscribeClosed(h))
        /\ WF_vars(ServerSubscribed(h))
        /\ WF_vars(ServerWake(h))
        /\ WF_vars(ServerUnsubscribe(h))
        /\ WF_vars(ServerUnsubscribeAgain(h))
        /\ WF_vars(ServerReturn(h))

ServerSpec ==
    /\ InitServer
    /\ [][NextServer]_vars
    /\ Sched(Subs)
    /\ SchedServer

\* Bus calls made in the smaller runs of the service.
ServerFairCalls == 5

InitServerFair == InitWith(ServerFairCalls)

ServerFairSpec ==
    /\ InitServerFair
    /\ [][NextServer]_vars
    /\ Sched(Subs)
    /\ SchedServer

\* A handler that has returned and had a subscription has run its Unsubscribe to
\* the end: the subscription is out of the map and its channel is closed.
UnsubscribesBeforeReturn ==
    \A h \in Subs :
        (hpc[h] = "returned" /\ sres[h] = "ok") =>
            /\ UnsubscribeReturned(h)
            /\ once[h] = "done"
            /\ chClosed[h]
            /\ h \notin Registered(subs)

\* C21: the Subscribe stream handler unsubscribes its subscription before it
\* returns, and it returns, ending the stream, both when the stream's context is
\* done and when the bus has been closed.
C21_StreamLifecycle ==
    /\ []UnsubscribesBeforeReturn
    /\ \A h \in Subs : (hpc[h] = "waiting" /\ hctx[h]) ~> (hpc[h] = "returned")
    /\ \A h \in Subs : (hpc[h] = "waiting" /\ closed) ~> (hpc[h] = "returned")

\* A waiting handler whose stream context is done returns, unless a panic ends
\* the process first.
StreamDoneEndsStreamUnlessPanic ==
    \A h \in Subs : (hpc[h] = "waiting" /\ hctx[h]) ~> (hpc[h] = "returned" \/ panicked)

\* A waiting handler returns once the bus has been closed, unless a panic ends
\* the process first.
BusCloseEndsStreamUnlessPanic ==
    \A h \in Subs : (hpc[h] = "waiting" /\ closed) ~> (hpc[h] = "returned" \/ panicked)

\* The only thing a waiting handler waits for is its stream's context.
HandlerWaitsOnlyOnStream ==
    \A h \in Subs :
        (hpc[h] = "waiting" /\ Running) => (ENABLED ServerWake(h) <=> hctx[h])

\* The bus has shut down completely (Close returned nil, the worker has exited)
\* and the handler still waits on a stream whose context is not done.
ClosedBusOpenStream ==
    \E h \in Subs :
        /\ hpc[h] = "waiting"
        /\ ~hctx[h]
        /\ cpc[1] = "done"
        /\ cresult[1] = "nil"
        /\ wpc[h] = "exited"
====
